---------------------------- MODULE Spec2Model ----------------------------
(***************************************************************************)
(* A model of the GDB 'explore' command (share/gdb/python/gdb/command/     *)
(* explore.py): the dispatcher Explorer.explore_expr / explore_type, the   *)
(* per-category handlers and the Repeat/Return protocol between them.      *)
(*                                                                         *)
(* The Python call stack is the variable `stack`; every blocking           *)
(* raw_input() is one action that draws the line typed from Inputs.        *)
(* Strings the code takes apart or builds (expression paths, the lines     *)
(* typed, the keys of the choice table) are sequences of one-character     *)
(* strings, so that guard_expr, int() and "%d" are computed as the code    *)
(* computes them.                                                          *)
(***************************************************************************)
EXTENDS Integers, Sequences, FiniteSets, TLC

(***************************************************************************)
(* Bounds of the model.                                                    *)
(***************************************************************************)
\* number of lines read with raw_input() in one session
MaxInputs == 4

\* number of times the inspected program's memory changes during a session
MaxWrites == 1

\* number of lines read once the user only presses enter
MaxEnters == 12

\* guard_expr on its own: the longest expression string tried, and how many
\* times in a row guard_expr is applied to it
MaxLen == 4

MaxGuardCalls == 2

(***************************************************************************)
(* Characters and strings.                                                 *)
(***************************************************************************)
Lower == {"a", "b", "c", "d", "e", "f", "g", "h", "i", "j", "k", "l", "m",
          "n", "o", "p", "q", "r", "s", "t", "u", "v", "w", "x", "y", "z"}

Upper == {"A", "B", "C", "D", "E", "F", "G", "H", "I", "J", "K", "L", "M",
          "N", "O", "P", "Q", "R", "S", "T", "U", "V", "W", "X", "Y", "Z"}

Digit == {"0", "1", "2", "3", "4", "5", "6", "7", "8", "9"}

\* the characters guard_expr leaves unguarded: '_', a-z, A-Z, 0-9
IsWordChar(c) == c = "_" \/ c \in Lower \/ c \in Upper \/ c \in Digit

\* guard_expr without the test of the first and last character
guard_expr_AlwaysScan(expr) ==
    IF \E i \in 1..Len(expr) : ~IsWordChar(expr[i])
    THEN <<"(">> \o expr \o <<")">> ELSE expr

\* guard_expr testing the first character only
guard_expr_FirstOnly(expr) ==
    IF expr[1] # "(" /\ \E i \in 1..Len(expr) : ~IsWordChar(expr[i])
    THEN <<"(">> \o expr \o <<")">> ELSE expr

\* Explorer.guard_expr: parenthesise expr unless it already starts with '('
\* and ends with ')', or consists of word characters only.
guard_expr(expr) ==
    LET length == Len(expr)
        guard  == /\ (expr[1] # "(" \/ expr[length] # ")")
                  /\ \E i \in 1..length : ~IsWordChar(expr[i])
    IN  IF guard THEN <<"(">> \o expr \o <<")">> ELSE expr

DigitVal(c) ==
    CASE c = "0" -> 0 [] c = "1" -> 1 [] c = "2" -> 2 [] c = "3" -> 3
      [] c = "4" -> 4 [] c = "5" -> 5 [] c = "6" -> 6 [] c = "7" -> 7
      [] c = "8" -> 8 [] c = "9" -> 9

DigitChar(d) == CHOOSE c \in Digit : DigitVal(c) = d

RECURSIVE NatToStr(_)
NatToStr(n) ==
    IF n < 10 THEN <<DigitChar(n)>>
    ELSE NatToStr(n \div 10) \o <<DigitChar(n % 10)>>

\* "%d" % n and str(n)
IntToStr(n) == IF n < 0 THEN <<"-">> \o NatToStr(-n) ELSE NatToStr(n)

RECURSIVE LStrip(_)
LStrip(s) == IF s # <<>> /\ Head(s) = " " THEN LStrip(Tail(s)) ELSE s

RECURSIVE RStrip(_)
RStrip(s) ==
    IF s # <<>> /\ s[Len(s)] = " " THEN RStrip(SubSeq(s, 1, Len(s) - 1)) ELSE s

RECURSIVE DigitsVal(_)
DigitsVal(s) ==
    IF s = <<>> THEN 0
    ELSE 10 * DigitsVal(SubSeq(s, 1, Len(s) - 1)) + DigitVal(s[Len(s)])

\* int(text) of Python: surrounding blanks are dropped, one sign is allowed,
\* then one or more decimal digits; anything else is a ValueError.
ParseInt(text) ==
    LET t      == RStrip(LStrip(text))
        signed == t # <<>> /\ Head(t) \in {"+", "-"}
        body   == IF signed THEN Tail(t) ELSE t
        ok     == body # <<>> /\ \A i \in 1..Len(body) : body[i] \in Digit
    IN  IF ok
        THEN [ok |-> TRUE,
              val |-> IF signed /\ Head(t) = "-" THEN -DigitsVal(body)
                      ELSE DigitsVal(body)]
        ELSE [ok |-> FALSE, val |-> 0]

\* the lines a user types at a prompt
Inputs == {<<>>, <<"y">>, <<"x">>, <<"0">>, <<"1">>, <<"2">>, <<" ", "1">>}

(***************************************************************************)
(* The inspected program's types (gdb.Type): code, target(), fields().     *)
(***************************************************************************)
ScalarCodes == {"CHAR", "INT", "BOOL", "FLT", "VOID", "ENUM"}

Field(n, t, art, base) ==
    [name |-> n, type |-> t, artificial |-> art, is_base_class |-> base]

\* struct B { int x; };                       all fields scalar
\* struct E { <artificial _v> };              no real field
\* struct S { int a; <artificial _v>; B b; S *n; };     cyclic through n
\* struct D : B { E e; mp m; };               base class, empty struct, field
\*                                            of a type with no explorer
\* union  U { int i; <artificial _v>; TS t; }; TS, TTS: typedefs of S
\* mp: a pointer to member (TYPE_CODE_MEMBERPTR), which has no explorer
TypeTable ==
    [ int |-> [code |-> "INT",    target |-> "",    fields |-> <<>>],
      en  |-> [code |-> "ENUM",   target |-> "",    fields |-> <<>>],
      mp  |-> [code |-> "MEMBERPTR", target |-> "", fields |-> <<>>],
      B   |-> [code |-> "STRUCT", target |-> "",
               fields |-> << Field(<<"x">>, "int", FALSE, FALSE) >>],
      E   |-> [code |-> "STRUCT", target |-> "",
               fields |-> << Field(<<"_", "v">>, "PI", TRUE, FALSE) >>],
      S   |-> [code |-> "STRUCT", target |-> "",
               fields |-> << Field(<<"a">>, "int", FALSE, FALSE),
                             Field(<<"_", "v">>, "PI", TRUE, FALSE),
                             Field(<<"b">>, "B", FALSE, FALSE),
                             Field(<<"n">>, "PS", FALSE, FALSE) >>],
      D   |-> [code |-> "STRUCT", target |-> "",
               fields |-> << Field(<<"B">>, "B", FALSE, TRUE),
                             Field(<<"e">>, "E", FALSE, FALSE),
                             Field(<<"m">>, "mp", FALSE, FALSE) >>],
      U   |-> [code |-> "UNION",  target |-> "",
               fields |-> << Field(<<"i">>, "int", FALSE, FALSE),
                             Field(<<"_", "v">>, "PI", TRUE, FALSE),
                             Field(<<"t">>, "TS", FALSE, FALSE) >>],
      PS  |-> [code |-> "PTR",     target |-> "S",   fields |-> <<>>],
      PI  |-> [code |-> "PTR",     target |-> "int", fields |-> <<>>],
      PM  |-> [code |-> "PTR",     target |-> "mp",  fields |-> <<>>],
      RS  |-> [code |-> "REF",     target |-> "S",   fields |-> <<>>],
      TS  |-> [code |-> "TYPEDEF", target |-> "S",   fields |-> <<>>],
      TTS |-> [code |-> "TYPEDEF", target |-> "TS",  fields |-> <<>>],
      AI  |-> [code |-> "ARRAY",   target |-> "int", fields |-> <<>>],
      AD  |-> [code |-> "ARRAY",   target |-> "D",   fields |-> <<>>],
      AM  |-> [code |-> "ARRAY",   target |-> "mp",  fields |-> <<>>] ]

TypeIds == DOMAIN TypeTable

TypeCode(t) == TypeTable[t].code

TypeTarget(t) == TypeTable[t].target

TypeFields(t) == TypeTable[t].fields

\* gdb.Type.strip_typedefs(): peel every typedef layer
StripTypedefs_OneLayer(t) == TypeTarget(t)

RECURSIVE StripTypedefs(_)
StripTypedefs(t) ==
    IF TypeCode(t) = "TYPEDEF" THEN StripTypedefs(TypeTarget(t)) ELSE t

\* Explorer.type_code_to_explorer_map as filled by Explorer.init_env
type_code_to_explorer_map ==
    { <<"CHAR", "Scalar">>, <<"INT", "Scalar">>, <<"BOOL", "Scalar">>,
      <<"FLT", "Scalar">>, <<"VOID", "Scalar">>, <<"ENUM", "Scalar">>,
      <<"STRUCT", "Compound">>, <<"UNION", "Compound">>,
      <<"PTR", "Pointer">>, <<"REF", "Reference">>,
      <<"RVALUE_REF", "Reference">>,
      <<"TYPEDEF", "Typedef">>, <<"ARRAY", "Array">> }

\* type_code in Explorer.type_code_to_explorer_map
HasExplorer(code) == \E e \in type_code_to_explorer_map : e[1] = code

\* Explorer.type_code_to_explorer_map[type_code]
ExplorerClass(code) ==
    (CHOOSE e \in type_code_to_explorer_map : e[1] = code)[2]

\* Explorer.is_scalar_type
is_scalar_type(t) == TypeCode(t) \in ScalarCodes


(***************************************************************************)
(* Values of the inspected program (gdb.Value).  A value is lazy: it names *)
(* a type and a place in the inferior's memory, and `ok` says whether that *)
(* place can be read.  Reading the contents of a value whose place cannot  *)
(* be read raises gdb.MemoryError.                                         *)
(***************************************************************************)
Value(t, ok) == [type |-> t, ok |-> ok]

\* str(value): renders the contents; gdb.MemoryError when they are unreadable
StrRaises(v) == ~v.ok

\* value.dereference(): needs the pointer's own contents
DerefRaises(v) == ~v.ok

\* value[index]: pointer arithmetic needs the pointer's contents; an array
\* element is a lazy slice of the array
IndexRaises(v) == TypeCode(v.type) = "PTR" /\ ~v.ok

\* value.referenced_value(): needs the reference's own contents
ReferencedRaises(v) == ~v.ok

\* value[field.name]: a lazy part of the same object
FieldValue(v, field) == Value(field.type, v.ok)

\* value.cast(type): the same object seen at another type
CastValue(v, t) == Value(t, v.ok)

(***************************************************************************)
(* State.                                                                  *)
(***************************************************************************)
VARIABLES
    stack,    \* the Python call stack: Explorer.* and handler activations
    ret,      \* what the call that returned last returned: "True", "False", "None"
    status,   \* "idle", "running", "done", "error" (an exception left explore_*)
              \* or "aborted" (a command raised gdb.GdbError); "draining":
              \* running, the user pressing only enter from now on
    log,      \* everything printed, prompted, read, called and returned, in order
    nin,      \* number of lines read so far
    nact,     \* number of activations (calls) made so far
    mem       \* the inspected program's memory: the number of writes it has seen

vars == <<stack, ret, status, log, nin, nact, mem>>

Str_Stale(v) == 0

\* str(value) of a readable scalar: a gdb.Value names a place, and rendering
\* it reads what the inspected program's memory holds there at that moment
Str(v) == mem

Modes == {"expr", "type"}

\* an activation: `id` numbers it, `by` is the id of the activation that
\* called it (0: the command)
Frame(fn, mode, expr, val, is_child, pc, id, by) ==
    [fn |-> fn, mode |-> mode, expr |-> expr, val |-> val,
     is_child |-> is_child, pc |-> pc, cmap |-> <<>>, id |-> id, by |-> by]

Top == stack[Len(stack)]

Below == SubSeq(stack, 1, Len(stack) - 1)

Event(kind, f, what, arg) ==
    [ev |-> kind, fn |-> f.fn, mode |-> f.mode, expr |-> f.expr,
     type |-> f.val.type, is_child |-> f.is_child, what |-> what, arg |-> arg,
     id |-> f.id, by |-> f.by]

Printed(f, what, arg) == Event("print", f, what, arg)

Typed(f, prompt, text) == Event("input", f, prompt, text)

\* the running handler is the activation on top
Running(fn, mode, pc) ==
    /\ status \in {"running", "draining"}
    /\ stack # <<>>
    /\ Top.fn = fn
    /\ Top.mode = mode
    /\ Top.pc = pc

\* the handler prints evs, moves to pc and keeps running
Goto(pc, evs) ==
    /\ stack' = Append(Below, [Top EXCEPT !.pc = pc])
    /\ log' = log \o evs
    /\ UNCHANGED <<ret, status, nact, mem>>

\* the handler prints evs and returns r to Explorer.explore_expr/explore_type
HandlerReturn(r, evs) ==
    /\ stack' = Below
    /\ ret' = r
    /\ log' = log \o evs \o <<Event("return", Top, r, "")>>
    /\ UNCHANGED <<status, nact, mem>>

\* the same, calling Explorer.explore_expr whatever the handler
CallExplorer_AsValue(pc, expr, val, is_child, evs) ==
    /\ stack' = Below \o << [Top EXCEPT !.pc = pc],
                           Frame("Explorer", "expr", expr, val, is_child,
                                 "dispatch", nact + 1, Top.id) >>
    /\ ret' = "None"
    /\ log' = log \o evs
    /\ nact' = nact + 1
    /\ UNCHANGED <<status, mem>>

\* the handler prints evs and calls Explorer.explore_expr/explore_type(expr,
\* val, is_child); it resumes at pc when that call returns
CallExplorer(pc, expr, val, is_child, evs) ==
    /\ stack' = Below \o << [Top EXCEPT !.pc = pc],
                           Frame("Explorer", Top.mode, expr, val, is_child,
                                 "dispatch", nact + 1, Top.id) >>
    /\ ret' = "None"
    /\ log' = log \o evs
    /\ nact' = nact + 1
    /\ UNCHANGED <<status, mem>>

\* an exception no handler catches: it unwinds every activation and leaves
\* Explorer.explore_expr
Raise(evs, exc) ==
    /\ stack' = <<>>
    /\ ret' = "None"
    /\ status' = "error"
    /\ log' = log \o evs \o <<Event("raise", Top, exc, "")>>
    /\ UNCHANGED <<nact, mem>>

\* raw_input(): blocks until a line is typed
CanRead ==
    nin < MaxInputs + (IF status = "draining" THEN MaxEnters ELSE 0)

\* the lines raw_input() may return
Lines == IF status = "draining" THEN { <<>> } ELSE Inputs

(***************************************************************************)
(* The commands' calls of the engine at the root (is_child = False).       *)
(***************************************************************************)
RootExprs == { <<"v">>, <<"*", "p">> }

RootNames == { <<"T">> }

Init ==
    /\ stack = <<>>
    /\ ret = "None"
    /\ status = "idle"
    /\ log = <<>>
    /\ nin = 0
    /\ nact = 0
    /\ mem = 0

\* Explorer.explore_expr(arg_str, value, False) of the value commands
InvokeExploreExpr ==
    /\ status = "idle"
    /\ \E e \in RootExprs, t \in TypeIds, ok \in BOOLEAN :
          stack' = << Frame("Explorer", "expr", e, Value(t, ok), FALSE,
                            "dispatch", 1, 0) >>
    /\ status' = "running"
    /\ nact' = 1
    /\ UNCHANGED <<ret, log, nin, mem>>

\* Explorer.explore_type(arg_str, datatype, False) of the type commands
InvokeExploreType ==
    /\ status = "idle"
    /\ \E n \in RootNames, t \in TypeIds :
          stack' = << Frame("Explorer", "type", n, Value(t, TRUE), FALSE,
                            "dispatch", 1, 0) >>
    /\ status' = "running"
    /\ nact' = 1
    /\ UNCHANGED <<ret, log, nin, mem>>

(***************************************************************************)
(* Explorer.explore_expr and Explorer.explore_type: the dispatcher.        *)
(***************************************************************************)
\* the dispatcher calls the handler of its node's category
CallHandler(evs) ==
    LET h == Frame(ExplorerClass(TypeCode(Top.val.type)), Top.mode, Top.expr,
                   Top.val, Top.is_child, "enter", nact + 1, Top.id)
    IN  /\ stack' = Below \o << [Top EXCEPT !.pc = "while"], h >>
        /\ ret' = "None"
        /\ log' = log \o evs \o <<Event("handler", h, "", "")>>
        /\ nact' = nact + 1
        /\ UNCHANGED <<status, mem>>

\* the dispatcher returns (None) to whoever called it
ExplorerReturn(evs) ==
    /\ stack' = Below
    /\ ret' = "None"
    /\ log' = log \o evs \o <<Event("return", Top, "None", "")>>
    /\ status' = IF Below = <<>> THEN "done" ELSE status
    /\ UNCHANGED <<nact, mem>>

\* entry: look the type code up; no explorer -> "not yet available"
ExplorerDispatch(mode) ==
    /\ Running("Explorer", mode, "dispatch")
    /\ IF HasExplorer(TypeCode(Top.val.type))
       THEN CallHandler(<<Event("explore", Top, "", "")>>)
       ELSE ExplorerReturn(<<Event("explore", Top, "", ""),
                             Printed(Top, "not_available", "")>>)
    /\ UNCHANGED nin

\* while explorer_class.explore_*(...): pass
ExplorerWhile(mode) ==
    /\ Running("Explorer", mode, "while")
    /\ ret \in {"True", "False"}
    /\ IF ret = "True" THEN CallHandler(<<>>) ELSE ExplorerReturn(<<>>)
    /\ UNCHANGED nin

Explorer_explore_expr == ExplorerDispatch("expr") \/ ExplorerWhile("expr")

Explorer_explore_type == ExplorerDispatch("type") \/ ExplorerWhile("type")

(***************************************************************************)
(* ScalarExplorer                                                          *)
(***************************************************************************)
\* the same, returning True
ReturnPrompt_Repeat(fn, mode, withBanner) ==
    /\ Running(fn, mode, "prompt_return")
    /\ CanRead
    /\ \E text \in Lines :
          HandlerReturn("True",
              <<Typed(Top, "return", text)>>
              \o (IF withBanner THEN <<Printed(Top, "banner", "")>> ELSE <<>>))
    /\ nin' = nin + 1

\* Explorer.return_to_parent_value_prompt / return_to_enclosing_type_prompt
\* followed by the return: read one line, whatever it is
ReturnPrompt(fn, mode, withBanner) ==
    /\ Running(fn, mode, "prompt_return")
    /\ CanRead
    /\ \E text \in Lines :
          HandlerReturn("False",
              <<Typed(Top, "return", text)>>
              \o (IF withBanner THEN <<Printed(Top, "banner", "")>> ELSE <<>>))
    /\ nin' = nin + 1

ScalarExplorer_explore_expr ==
    \/ /\ Running("Scalar", "expr", "enter")
       /\ IF StrRaises(Top.val)
          THEN Raise(<<>>, "MemoryError")
          ELSE IF Top.is_child
               THEN Goto("prompt_return", <<Printed(Top, "scalar", "")>>)
               ELSE HandlerReturn("False", <<Printed(Top, "scalar", "")>>)
       /\ UNCHANGED nin
    \/ ReturnPrompt("Scalar", "expr", TRUE)

ScalarExplorer_explore_type ==
    \/ /\ Running("Scalar", "type", "enter")
       /\ IF Top.is_child
          THEN Goto("prompt_return", <<Printed(Top, "scalar", "")>>)
          ELSE HandlerReturn("False", <<Printed(Top, "scalar", "")>>)
       /\ UNCHANGED nin
    \/ ReturnPrompt("Scalar", "type", TRUE)

(***************************************************************************)
(* PointerExplorer                                                         *)
(***************************************************************************)
\* the same without the test of is_child
PointerInvalid_AlwaysPrompt(text) ==
    Goto("prompt_return",
         <<Typed(Top, "single", text), Printed(Top, "invalid_pointer", "")>>)

\* except gdb.MemoryError of the single-value branch: report, and when a
\* child wait for enter; return False
PointerInvalid(text) ==
    LET evs == <<Typed(Top, "single", text), Printed(Top, "invalid_pointer", "")>>
    IN  IF Top.is_child THEN Goto("prompt_return", evs)
        ELSE HandlerReturn("False", evs)

\* the single-value branch: dereference, render, explore the pointee
PointerSingle(text) ==
    IF DerefRaises(Top.val)
    THEN PointerInvalid(text)
    ELSE \E ok \in BOOLEAN :
           LET deref_value == Value(TypeTarget(Top.val.type), ok)
           IN  IF StrRaises(deref_value)
               THEN PointerInvalid(text)
               ELSE CallExplorer("after_call",
                                 <<"*">> \o guard_expr(Top.expr),
                                 deref_value, Top.is_child,
                                 <<Typed(Top, "single", text)>>)

PointerElementUnreadable_Break(evs) == HandlerReturn("False", evs)

\* except gdb.MemoryError of the array loop: report and `continue`
PointerElementUnreadable(evs) == Goto("index", evs)

\* one round of the `while True` loop of the array branch
PointerIndex(text) ==
    LET parsed == ParseInt(text)
        index  == parsed.val
        read   == <<Typed(Top, "index", text)>>
    IN  IF ~parsed.ok
        THEN HandlerReturn("False", read)
        ELSE IF IndexRaises(Top.val)
        THEN Raise(read, "MemoryError")
        ELSE \E ok \in BOOLEAN :
               LET element == Value(TypeTarget(Top.val.type), ok)
                   element_expr ==
                       guard_expr(Top.expr) \o <<"[">> \o IntToStr(index) \o <<"]">>
               IN  IF StrRaises(element)
                   THEN PointerElementUnreadable(
                            read \o <<Printed(Top, "cannot_read", index)>>)
                   ELSE CallExplorer("index", element_expr, element, TRUE, read)

PointerExplorer_explore_expr ==
    \/ /\ Running("Pointer", "expr", "enter")
       /\ Goto("ask_single", <<Printed(Top, "pointer", TypeTarget(Top.val.type))>>)
       /\ UNCHANGED nin
    \/ /\ Running("Pointer", "expr", "ask_single")
       /\ CanRead
       /\ \E text \in Lines :
             IF text = <<"y">>
             THEN PointerSingle(text)
             ELSE Goto("ask_array", <<Typed(Top, "single", text)>>)
       /\ nin' = nin + 1
    \/ /\ Running("Pointer", "expr", "after_call")
       /\ HandlerReturn("False", <<>>)
       /\ UNCHANGED nin
    \/ /\ Running("Pointer", "expr", "ask_array")
       /\ CanRead
       /\ \E text \in Lines :
             IF text = <<"y">>
             THEN Goto("index", <<Typed(Top, "array", text)>>)
             ELSE HandlerReturn("False",
                      <<Typed(Top, "array", text)>>
                      \o (IF Top.is_child THEN <<Printed(Top, "banner", "")>>
                          ELSE <<>>))
       /\ nin' = nin + 1
    \/ /\ Running("Pointer", "expr", "index")
       /\ CanRead
       /\ \E text \in Lines : PointerIndex(text)
       /\ nin' = nin + 1
    \/ ReturnPrompt("Pointer", "expr", FALSE)

PointerExplorer_explore_type ==
    \/ /\ Running("Pointer", "type", "enter")
       /\ CallExplorer("after_call",
                       <<"the pointee type of ">> \o Top.expr,
                       Value(TypeTarget(Top.val.type), TRUE), Top.is_child,
                       <<Printed(Top, "pointer", TypeTarget(Top.val.type))>>)
       /\ UNCHANGED nin
    \/ /\ Running("Pointer", "type", "after_call")
       /\ HandlerReturn("False", <<>>)
       /\ UNCHANGED nin

(***************************************************************************)
(* ReferenceExplorer                                                       *)
(***************************************************************************)
ReferenceExplorer_explore_expr ==
    \/ /\ Running("Reference", "expr", "enter")
       /\ IF ReferencedRaises(Top.val)
          THEN Raise(<<>>, "MemoryError")
          ELSE \E ok \in BOOLEAN :
                 CallExplorer("after_call", Top.expr,
                              Value(TypeTarget(Top.val.type), ok),
                              Top.is_child, <<>>)
       /\ UNCHANGED nin
    \/ /\ Running("Reference", "expr", "after_call")
       /\ HandlerReturn("False", <<>>)
       /\ UNCHANGED nin

ReferenceExplorer_explore_type ==
    \/ /\ Running("Reference", "type", "enter")
       /\ CallExplorer("after_call", Top.expr,
                       Value(TypeTarget(Top.val.type), TRUE), Top.is_child, <<>>)
       /\ UNCHANGED nin
    \/ /\ Running("Reference", "type", "after_call")
       /\ HandlerReturn("False", <<>>)
       /\ UNCHANGED nin

(***************************************************************************)
(* ArrayExplorer                                                           *)
(***************************************************************************)
\* except gdb.MemoryError: report, then raw_input("Press enter to continue... ")
ArrayElementUnreadable(evs) == Goto("continue", evs)

ArrayUnreadableResult_False == "False"

\* what explore_expr returns once "Press enter to continue... " was answered
ArrayUnreadableResult == "True"

ArrayExploredResult_False == "False"

\* what explore_expr returns once the element's exploration has unwound
ArrayExploredResult == "True"

\* one invocation from the index prompt on
ArrayIndex(text) ==
    LET parsed == ParseInt(text)
        index  == parsed.val
        read   == <<Typed(Top, "index", text)>>
    IN  IF ~parsed.ok
        THEN HandlerReturn("False",
                 read \o (IF Top.is_child THEN <<Printed(Top, "banner", "")>>
                          ELSE <<>>))
        ELSE \E ok \in BOOLEAN :
               LET element == Value(TypeTarget(Top.val.type), ok)
                   element_expr ==
                       guard_expr(Top.expr) \o <<"[">> \o IntToStr(index) \o <<"]">>
               IN  IF IndexRaises(Top.val) \/ StrRaises(element)
                   THEN ArrayElementUnreadable(
                            read \o <<Printed(Top, "cannot_read", index)>>)
                   ELSE CallExplorer("after_call", element_expr, element, TRUE,
                                     read)

ArrayExplorer_explore_expr ==
    \/ /\ Running("Array", "expr", "enter")
       /\ Goto("index", <<Printed(Top, "array", TypeTarget(Top.val.type))>>)
       /\ UNCHANGED nin
    \/ /\ Running("Array", "expr", "index")
       /\ CanRead
       /\ \E text \in Lines : ArrayIndex(text)
       /\ nin' = nin + 1
    \/ /\ Running("Array", "expr", "continue")
       /\ CanRead
       /\ \E text \in Lines :
             HandlerReturn(ArrayUnreadableResult, <<Typed(Top, "continue", text)>>)
       /\ nin' = nin + 1
    \/ /\ Running("Array", "expr", "after_call")
       /\ HandlerReturn(ArrayExploredResult, <<>>)
       /\ UNCHANGED nin

ArrayTypeResult_True == "True"

\* what explore_type returns once the element type's exploration has unwound
ArrayTypeResult == "False"

ArrayExplorer_explore_type ==
    \/ /\ Running("Array", "type", "enter")
       /\ CallExplorer("after_call",
                       <<"the array element of ">> \o Top.expr,
                       Value(TypeTarget(Top.val.type), TRUE), Top.is_child,
                       <<Printed(Top, "array", TypeTarget(Top.val.type))>>)
       /\ UNCHANGED nin
    \/ /\ Running("Array", "type", "after_call")
       /\ HandlerReturn(ArrayTypeResult, <<>>)
       /\ UNCHANGED nin

(***************************************************************************)
(* CompoundExplorer                                                        *)
(***************************************************************************)
_get_real_field_count_All(fields) == Len(fields)

RECURSIVE _get_real_field_count(_)
_get_real_field_count(fields) ==
    IF fields = <<>> THEN 0
    ELSE (IF Head(fields).artificial THEN 0 ELSE 1)
         + _get_real_field_count(Tail(fields))

\* the text printed to the right of a field's name: its value, or
\* the same, counting the fields from 1
Literal_FromOne(kind, n, desc, type) ==
    [kind |-> kind, n |-> IF kind = "choice" THEN n + 1 ELSE n,
     desc |-> desc, type |-> type]

\* "<Enter n to explore this desc of type 'type'>"
Literal(kind, n, desc, type) ==
    [kind |-> kind, n |-> n, desc |-> desc, type |-> type]

ShownInline_AlsoInUnion(type_code, field) == is_scalar_type(field.type)

\* a field of a struct/class whose value is printed in place
ShownInline(type_code, field) ==
    type_code # "UNION" /\ is_scalar_type(field.type)

\* the `for field in fields` loop of explore_expr; acc collects print_list,
\* choice_to_compound_field_map and has_explorable_fields, and `raised` when
\* rendering a field's value raised gdb.MemoryError
RECURSIVE ExprFieldLoop(_, _, _, _, _)
ExprFieldLoop(expr, value, fields, current_choice, acc) ==
    IF fields = <<>> \/ acc.raised THEN acc
    ELSE
      LET field == Head(fields)
          type_code == TypeCode(value.type)
          field_full_name == guard_expr(expr) \o <<".">> \o field.name
          field_value == IF field.is_base_class
                         THEN CastValue(value, field.type)
                         ELSE FieldValue(value, field)
          inline == ShownInline(type_code, field)
          literal_value ==
              IF inline
              THEN Literal("value", -1, "", field.type)
              ELSE Literal("choice", current_choice,
                           IF type_code # "UNION" /\ field.is_base_class
                           THEN "base class" ELSE "field",
                           field.type)
      IN  IF field.artificial
          THEN ExprFieldLoop(expr, value, Tail(fields), current_choice, acc)
          ELSE IF inline /\ StrRaises(field_value)
          THEN [acc EXCEPT !.raised = TRUE]
          ELSE ExprFieldLoop(expr, value, Tail(fields), current_choice + 1,
                 [print_list |-> Append(acc.print_list,
                        [name |-> field.name, literal |-> literal_value,
                         rendered |-> IF inline THEN Str(field_value) ELSE -1]),
                  cmap |-> Append(acc.cmap,
                        [key |-> IntToStr(current_choice),
                         name |-> field_full_name, val |-> field_value]),
                  has_explorable |-> acc.has_explorable \/ ~inline,
                  raised |-> FALSE])

ExprMenu(expr, value) ==
    ExprFieldLoop(expr, value, TypeFields(value.type), 0,
                  [print_list |-> <<>>, cmap |-> <<>>,
                   has_explorable |-> FALSE, raised |-> FALSE])

\* the `for field in fields` loop of explore_type
RECURSIVE TypeFieldLoop(_, _, _)
TypeFieldLoop(fields, current_choice, acc) ==
    IF fields = <<>> THEN acc
    ELSE
      LET field == Head(fields)
          field_desc == IF field.is_base_class THEN "base class" ELSE "field"
      IN  IF field.artificial
          THEN TypeFieldLoop(Tail(fields), current_choice, acc)
          ELSE TypeFieldLoop(Tail(fields), current_choice + 1,
                 [print_list |-> Append(acc.print_list,
                        [name |-> field.name,
                         literal |-> Literal("choice", current_choice,
                                             field_desc, field.type)]),
                  cmap |-> Append(acc.cmap,
                        [key |-> IntToStr(current_choice), name |-> field.name,
                         type |-> field.type, desc |-> field_desc])])

TypeMenu(datatype) ==
    TypeFieldLoop(TypeFields(datatype), 0, [print_list |-> <<>>, cmap |-> <<>>])

\* choice in choice_to_compound_field_map
InMap(cmap, choice) == \E k \in 1..Len(cmap) : cmap[k].key = choice

\* choice_to_compound_field_map[choice]
MapAt(cmap, choice) == cmap[CHOOSE k \in 1..Len(cmap) : cmap[k].key = choice]

\* the name under which explore_type explores a chosen field
NewTypeName(entry, name, is_child) ==
    <<entry.desc, " '">> \o entry.name \o <<"' of ">>
    \o (IF is_child THEN name ELSE <<"'">> \o name \o <<"'">>)

\* the handler shows the menu and goes on to the "field number" prompt
ShowMenu(menu) ==
    /\ stack' = Append(Below, [Top EXCEPT !.pc = "choice", !.cmap = menu.cmap])
    /\ log' = log \o <<Printed(Top, "menu", menu.print_list)>>
    /\ UNCHANGED <<ret, status, nact, mem>>

CompoundChosenResult_False == "False"

\* what explore_expr / explore_type return once the chosen field's
\* exploration has unwound
CompoundChosenResult == "True"

NoSuchChoice_Repeat(text) ==
    HandlerReturn("True",
        <<Typed(Top, "choice", text)>>
        \o (IF Top.is_child THEN <<Printed(Top, "banner", "")>> ELSE <<>>))

\* the banner of an answer that is no key of the table, and return False
NoSuchChoice(text) ==
    HandlerReturn("False",
        <<Typed(Top, "choice", text)>>
        \o (IF Top.is_child THEN <<Printed(Top, "banner", "")>> ELSE <<>>))

CompoundExplorer_explore_expr ==
    \/ /\ Running("Compound", "expr", "enter")
       /\ IF _get_real_field_count(TypeFields(Top.val.type)) = 0
          THEN IF Top.is_child
               THEN Goto("prompt_return", <<Printed(Top, "no_fields", "")>>)
               ELSE HandlerReturn("False", <<Printed(Top, "no_fields", "")>>)
          ELSE LET menu == ExprMenu(Top.expr, Top.val)
               IN  IF menu.raised
                   THEN Raise(<<Printed(Top, "fields_header", "")>>, "MemoryError")
                   ELSE IF menu.has_explorable
                   THEN ShowMenu(menu)
                   ELSE IF Top.is_child
                   THEN Goto("prompt_return",
                             <<Printed(Top, "menu", menu.print_list)>>)
                   ELSE HandlerReturn("False",
                             <<Printed(Top, "menu", menu.print_list)>>)
       /\ UNCHANGED nin
    \/ /\ Running("Compound", "expr", "choice")
       /\ CanRead
       /\ \E choice \in Lines :
             IF InMap(Top.cmap, choice)
             THEN CallExplorer("after_call", MapAt(Top.cmap, choice).name,
                               MapAt(Top.cmap, choice).val, TRUE,
                               <<Typed(Top, "choice", choice)>>)
             ELSE NoSuchChoice(choice)
       /\ nin' = nin + 1
    \/ /\ Running("Compound", "expr", "after_call")
       /\ HandlerReturn(CompoundChosenResult, <<>>)
       /\ UNCHANGED nin
    \/ ReturnPrompt("Compound", "expr", FALSE)

CompoundExplorer_explore_type ==
    \/ /\ Running("Compound", "type", "enter")
       /\ IF _get_real_field_count(TypeFields(Top.val.type)) = 0
          THEN IF Top.is_child
               THEN Goto("prompt_return", <<Printed(Top, "no_fields", "")>>)
               ELSE HandlerReturn("False", <<Printed(Top, "no_fields", "")>>)
          ELSE LET menu == TypeMenu(Top.val.type)
               IN  IF menu.cmap # <<>>
                   THEN ShowMenu(menu)
                   ELSE IF Top.is_child
                   THEN Goto("prompt_return",
                             <<Printed(Top, "menu", menu.print_list)>>)
                   ELSE HandlerReturn("False",
                             <<Printed(Top, "menu", menu.print_list)>>)
       /\ UNCHANGED nin
    \/ /\ Running("Compound", "type", "choice")
       /\ CanRead
       /\ \E choice \in Lines :
             IF InMap(Top.cmap, choice)
             THEN CallExplorer("after_call",
                      NewTypeName(MapAt(Top.cmap, choice), Top.expr, Top.is_child),
                      Value(MapAt(Top.cmap, choice).type, TRUE), TRUE,
                      <<Typed(Top, "choice", choice)>>)
             ELSE NoSuchChoice(choice)
       /\ nin' = nin + 1
    \/ /\ Running("Compound", "type", "after_call")
       /\ HandlerReturn(CompoundChosenResult, <<>>)
       /\ UNCHANGED nin
    \/ ReturnPrompt("Compound", "type", FALSE)

(***************************************************************************)
(* TypedefExplorer                                                         *)
(***************************************************************************)
TypedefExplorer_explore_expr ==
    \/ /\ Running("Typedef", "expr", "enter")
       /\ LET actual_type == StripTypedefs(Top.val.type)
          IN  CallExplorer("after_call", Top.expr,
                           CastValue(Top.val, actual_type), Top.is_child,
                           <<Printed(Top, "typedef", actual_type)>>)
       /\ UNCHANGED nin
    \/ /\ Running("Typedef", "expr", "after_call")
       /\ HandlerReturn("False", <<>>)
       /\ UNCHANGED nin

TypedefExplorer_explore_type ==
    \/ /\ Running("Typedef", "type", "enter")
       /\ LET actual_type == StripTypedefs(Top.val.type)
          IN  CallExplorer("after_call", Top.expr,
                           Value(actual_type, TRUE), Top.is_child,
                           <<Printed(Top, "typedef", actual_type)>>)
       /\ UNCHANGED nin
    \/ /\ Running("Typedef", "type", "after_call")
       /\ HandlerReturn("False", <<>>)
       /\ UNCHANGED nin

\* one step of the navigation engine
Engine ==
    \/ Explorer_explore_expr
    \/ Explorer_explore_type
    \/ ScalarExplorer_explore_expr
    \/ ScalarExplorer_explore_type
    \/ PointerExplorer_explore_expr
    \/ PointerExplorer_explore_type
    \/ ReferenceExplorer_explore_expr
    \/ ReferenceExplorer_explore_type
    \/ ArrayExplorer_explore_expr
    \/ ArrayExplorer_explore_type
    \/ CompoundExplorer_explore_expr
    \/ CompoundExplorer_explore_type
    \/ TypedefExplorer_explore_expr
    \/ TypedefExplorer_explore_type

Next ==
    \/ InvokeExploreExpr
    \/ InvokeExploreType
    \/ Engine

Spec == Init /\ [][Next]_vars

(***************************************************************************)
(* A session on a live program: the inspected program's memory changes     *)
(* while the session runs.                                                 *)
(***************************************************************************)
InferiorWrites ==
    /\ status = "running"
    /\ mem < MaxWrites
    /\ mem' = mem + 1
    /\ UNCHANGED <<stack, ret, status, log, nin, nact>>

LiveNext ==
    \/ InvokeExploreExpr
    \/ InvokeExploreType
    \/ Engine
    \/ InferiorWrites

LiveSpec == Init /\ [][LiveNext]_vars

(***************************************************************************)
(* A session in which, from some moment on, the user only presses enter.   *)
(* The interpreter runs the session whenever it can, and every prompt is   *)
(* answered.                                                               *)
(***************************************************************************)
OnlyEnterFromNow ==
    /\ status = "running"
    /\ status' = "draining"
    /\ UNCHANGED <<stack, ret, log, nin, nact, mem>>

DrainNext ==
    \/ InvokeExploreExpr
    \/ InvokeExploreType
    \/ Engine
    \/ OnlyEnterFromNow

DrainSpec == Init /\ [][DrainNext]_vars /\ WF_vars(Engine)

(***************************************************************************)
(* Explorer.guard_expr on its own: it is called with an expression string, *)
(* and then again with what it returned.                                   *)
(***************************************************************************)
\* letters, digits, '_', parentheses, an operator and a blank
Alphabet == {"a", "Z", "0", "_", "(", ")", "*", " "}

\* the non-empty expression strings of at most MaxLen characters
ExprStrings == UNION { [1..n -> Alphabet] : n \in 1..MaxLen }

GuardInit ==
    /\ stack = <<>>
    /\ ret = "None"
    /\ status = "guard_expr"
    /\ nin = 0
    /\ nact = 0
    /\ mem = 0
    /\ \E expr \in ExprStrings : log = << [ev |-> "expr", expr |-> expr] >>

\* guard_expr(expr), expr being the string given or the last string returned
GuardCall ==
    /\ status = "guard_expr"
    /\ Len(log) <= MaxGuardCalls
    /\ log' = Append(log, [ev |-> "guard_expr",
                           expr |-> guard_expr(log[Len(log)].expr)])
    /\ UNCHANGED <<stack, ret, status, nin, nact, mem>>

GuardNext == GuardCall

GuardSpec == GuardInit /\ [][GuardNext]_vars

(***************************************************************************)
(* The commands: explore, explore value, explore type.                     *)
(***************************************************************************)
\* the expressions that evaluate in the current context, with the type of
\* their value, and the names that are types there; "n" is both
PtrExpr == <<"(", "a", ")", "+", "(", "b", ")">>

ContextValues ==
    { [name |-> <<"r">>, type |-> "RS"],
      [name |-> <<"n">>, type |-> "U"],
      [name |-> <<"w">>, type |-> "AM"],
      [name |-> PtrExpr, type |-> "PM"] }

ContextTypes ==
    { [name |-> <<"T">>, type |-> "U"],
      [name |-> <<"n">>, type |-> "AI"] }

\* the argument strings typed after the command's name
CmdArgs == { <<>>, <<"r">>, <<"n">>, <<"w">>, <<"T">>, <<"?">>, PtrExpr }

Lookup(table, str) ==
    IF \E c \in table : c.name = str
    THEN (CHOOSE c \in table : c.name = str).type
    ELSE "none"

check_args_NoCheck(arg_str) == TRUE

\* ExploreUtils.check_args: False stands for the gdb.GdbError it raises
check_args(arg_str) == ~(Len(arg_str) < 1)

\* ExploreUtils.get_type_from_str: the gdb.Type, or None ("none")
get_type_from_str(type_str) == Lookup(ContextTypes, type_str)

get_value_from_str_None(value_str) == "none"

\* ExploreUtils.get_value_from_str: the type of the gdb.Value, or None
get_value_from_str(value_str) == Lookup(ContextValues, value_str)

\* str(value.type)
TypeName(t) == <<t>>

\* the activation of a command's invoke(arg_str, from_tty)
CommandFrame(name, arg_str) ==
    Frame(name, "cmd", arg_str, Value("none", TRUE), FALSE, "invoke", 0, 0)

Resolved(f, what, t) == Event("resolve", f, what, t)

\* raise gdb.GdbError(...): the command aborts
CommandAbort(f, evs) ==
    /\ stack' = <<>>
    /\ status' = "aborted"
    /\ log' = log \o evs \o <<Event("raise", f, "GdbError", "")>>
    /\ UNCHANGED <<ret, nin, nact, mem>>

\* Explorer.explore_expr / explore_type(name, ..., False) called by a command
CommandExplore(mode, name, val, evs) ==
    /\ stack' = << Frame("Explorer", mode, name, val, FALSE, "dispatch", 1, 0) >>
    /\ status' = "running"
    /\ nact' = 1
    /\ log' = log \o evs
    /\ UNCHANGED <<ret, nin, mem>>

ExploreCommand_invoke ==
    /\ status = "idle"
    /\ \E arg_str \in CmdArgs, ok \in BOOLEAN :
          LET f        == CommandFrame("explore", arg_str)
              called   == Event("command", f, "", "")
              value    == get_value_from_str(arg_str)
              datatype == get_type_from_str(arg_str)
          IN  IF ~check_args(arg_str)
              THEN CommandAbort(f, <<called>>)
              ELSE IF value # "none"
              THEN CommandExplore("expr", arg_str, Value(value, ok),
                       <<called, Resolved(f, "value", value)>>)
              ELSE IF datatype # "none"
              THEN CommandExplore("type", arg_str, Value(datatype, TRUE),
                       <<called, Resolved(f, "value", value),
                         Resolved(f, "type", datatype)>>)
              ELSE CommandAbort(f, <<called, Resolved(f, "value", value),
                                     Resolved(f, "type", datatype)>>)

ExploreValueCommand_invoke ==
    /\ status = "idle"
    /\ \E arg_str \in CmdArgs, ok \in BOOLEAN :
          LET f      == CommandFrame("explore value", arg_str)
              called == Event("command", f, "", "")
              value  == get_value_from_str(arg_str)
          IN  IF ~check_args(arg_str)
              THEN CommandAbort(f, <<called>>)
              ELSE IF value = "none"
              THEN CommandAbort(f, <<called, Resolved(f, "value", value)>>)
              ELSE CommandExplore("expr", arg_str, Value(value, ok),
                       <<called, Resolved(f, "value", value)>>)

ExploreTypeCommand_invoke ==
    /\ status = "idle"
    /\ \E arg_str \in CmdArgs :
          LET f        == CommandFrame("explore type", arg_str)
              called   == Event("command", f, "", "")
              datatype == get_type_from_str(arg_str)
              value    == get_value_from_str(arg_str)
          IN  IF ~check_args(arg_str)
              THEN CommandAbort(f, <<called>>)
              ELSE IF datatype # "none"
              THEN CommandExplore("type", arg_str, Value(datatype, TRUE),
                       <<called, Resolved(f, "type", datatype)>>)
              ELSE IF value # "none"
              THEN CommandExplore("type", TypeName(value), Value(value, TRUE),
                       <<called, Resolved(f, "type", datatype),
                         Resolved(f, "value", value),
                         Printed(f, "is_of_type", value)>>)
              ELSE CommandAbort(f, <<called, Resolved(f, "type", datatype),
                                     Resolved(f, "value", value)>>)

\* a session: one command, then the engine
CmdNext ==
    \/ ExploreCommand_invoke
    \/ ExploreValueCommand_invoke
    \/ ExploreTypeCommand_invoke
    \/ Engine

CmdSpec == Init /\ [][CmdNext]_vars


(***************************************************************************)
(* Reading the log.                                                        *)
(***************************************************************************)
LogIdx == 1..Len(log)

Is(n, kind, what) == log[n].ev = kind /\ log[n].what = what

\* two events of the same activation's node
SameNode(a, b) ==
    /\ a.fn = b.fn
    /\ a.mode = b.mode
    /\ a.expr = b.expr
    /\ a.type = b.type
    /\ a.is_child = b.is_child

\* event n is of the node of event e, and is a `kind`/`what`
IsOf(n, e, kind, what) == Is(n, kind, what) /\ SameNode(log[n], e)

\* the handler of event e's node is the running activation, at pc
WaitingAt(e, pc) ==
    /\ status = "running"
    /\ stack # <<>>
    /\ Top.pc = pc
    /\ Top.fn = e.fn /\ Top.mode = e.mode /\ Top.expr = e.expr
    /\ Top.val.type = e.type /\ Top.is_child = e.is_child

\* the path of element `index` of the node at path expr
ElementExpr(expr, index) ==
    guard_expr(expr) \o <<"[">> \o IntToStr(index) \o <<"]">>

\* event m explores element `index` of the node of event e as a child
ExploresElement(m, e, index) ==
    /\ log[m].ev = "explore"
    /\ log[m].mode = "expr"
    /\ log[m].expr = ElementExpr(e.expr, index)
    /\ log[m].type = TypeTarget(e.type)
    /\ log[m].is_child

(***************************************************************************)
(* C1.  No error propagates out of the navigation engine: whatever         *)
(* ValueHandle operation fails with UnreadableMemory, the handler reports  *)
(* it and returns Repeat or Return, so no exception ever leaves            *)
(* Explorer.explore_expr.                                                  *)
(***************************************************************************)
C1_NoErrorEscapes == status # "error"

(***************************************************************************)
(* C2.  Array exploration, element i unreadable.  As claimed: the index    *)
(* prompt of the same node is the very next thing read, for an array value *)
(* and for a pointer explored as an array alike.                           *)
(***************************************************************************)
C2_RepromptsImmediately ==
    \A n \in LogIdx :
        (Is(n, "print", "cannot_read") /\ n < Len(log))
        => IsOf(n + 1, log[n], "input", "index")

\* Explorer.explore_expr was called for element `index` of the node of event
\* e, as a child, and has not started yet
CallsElement(e, index) ==
    /\ status = "running"
    /\ stack # <<>>
    /\ Top.fn = "Explorer" /\ Top.pc = "dispatch" /\ Top.mode = "expr"
    /\ Top.expr = ElementExpr(e.expr, index)
    /\ Top.val = Value(TypeTarget(e.type), TRUE)
    /\ Top.is_child

\* the index read at event m, of the node of event e, is explored or reported
IndexAnswered(m, e) ==
    LET j == ParseInt(log[m].arg)
    IN  j.ok => IF m = Len(log)
                THEN CallsElement(e, j.val)
                ELSE \/ (IsOf(m + 1, e, "print", "cannot_read") /\ log[m + 1].arg = j.val)
                     \/ ExploresElement(m + 1, e, j.val)

(***************************************************************************)
(* C2 as amended.  The error is reported for the i that was entered, no    *)
(* exploration of element i happens and the session goes on.  A pointer    *)
(* explored as an array prompts for the next index at once.  An array      *)
(* value first reads one line at "Press enter to continue... " (whatever   *)
(* it holds), returns Repeat, and its next invocation prompts for the      *)
(* index.  An index j entered at that prompt is explored as a child at     *)
(* guard(path)[j] when readable.                                           *)
(***************************************************************************)
C2_AfterPointerFailure(n, e) ==
    /\ (n = Len(log)) => WaitingAt(e, "index")
    /\ (n < Len(log)) => (IsOf(n + 1, e, "input", "index") /\ IndexAnswered(n + 1, e))

C2_AfterArrayFailure(n, e) ==
    /\ (n = Len(log)) => WaitingAt(e, "continue")
    /\ (n < Len(log)) => (/\ IsOf(n + 1, e, "input", "continue")
                          /\ Len(log) >= n + 2
                          /\ IsOf(n + 2, e, "return", "True"))
    /\ (Len(log) >= n + 3) => IsOf(n + 3, e, "handler", "")
    /\ (Len(log) >= n + 4) => IsOf(n + 4, e, "print", "array")
    /\ (Len(log) = n + 4) => WaitingAt(e, "index")
    /\ (Len(log) >= n + 5) => (IsOf(n + 5, e, "input", "index") /\ IndexAnswered(n + 5, e))

C2_UnreadableElementSkipped ==
    \A n \in LogIdx :
        Is(n, "print", "cannot_read") =>
        LET e == log[n]
        IN  /\ n > 1
            /\ IsOf(n - 1, e, "input", "index")
            /\ ParseInt(log[n - 1].arg).ok
            /\ ParseInt(log[n - 1].arg).val = e.arg
            /\ e.fn \in {"Pointer", "Array"}
            /\ (e.fn = "Pointer") => C2_AfterPointerFailure(n, e)
            /\ (e.fn = "Array") => C2_AfterArrayFailure(n, e)

\* element 0 of an array value was unreadable, enter was pressed, and
\* element 1, entered next, is being explored
C2_Witness ==
    \E n \in LogIdx :
        /\ Is(n, "print", "cannot_read")
        /\ log[n].fn = "Array"
        /\ log[n].arg = 0
        /\ Len(log) >= n + 6
        /\ ExploresElement(n + 6, log[n], 1)

(***************************************************************************)
(* C3.  Exploring an array value at the root, all elements readable.       *)
(***************************************************************************)
\* the session explores an array value
RootIsArrayValue ==
    /\ log # <<>>
    /\ log[1].mode = "expr"
    /\ TypeCode(log[1].type) = "ARRAY"

NoUnreadableElement ==
    \A n \in LogIdx : ~Is(n, "print", "cannot_read") /\ log[n].ev # "raise"

\* an event of the root's handler
OfRoot(ev) ==
    /\ ev.fn = "Array"
    /\ ev.mode = "expr"
    /\ ev.expr = log[1].expr
    /\ ev.type = log[1].type
    /\ ~ev.is_child

IsInputEv(ev) == ev.ev = "input"

IsRootIndexEv(ev) == ev.ev = "input" /\ ev.what = "index" /\ OfRoot(ev)

\* an exploration of an element of the root array
IsRootElementEv(ev) ==
    /\ ev.ev = "explore"
    /\ ev.is_child
    /\ ev.type = TypeTarget(log[1].type)
    /\ Len(ev.expr) > Len(guard_expr(log[1].expr))
    /\ SubSeq(ev.expr, 1, Len(guard_expr(log[1].expr)) + 1)
         = guard_expr(log[1].expr) \o <<"[">>
    /\ ev.expr[Len(ev.expr)] = "]"

\* every line read in the session, in order
AllInputs == SelectSeq(log, IsInputEv)

\* the lines read at the root array's index prompt, in order
RootIndexInputs == SelectSeq(log, IsRootIndexEv)

\* the explorations of the root array's elements, in order
RootElements == SelectSeq(log, IsRootElementEv)

\* s is k >= 0 lines that int() accepts followed by one it does not
IndicesThenStop(s) ==
    /\ s # <<>>
    /\ \A k \in 1..Len(s) : ParseInt(s[k].arg).ok <=> (k < Len(s))

\* As claimed: when the lines supplied to the session are k integer indices
\* and then a non-integer, exactly k element explorations occur.
C3_SessionInputsAreIndices ==
    (RootIsArrayValue /\ NoUnreadableElement /\ IndicesThenStop(AllInputs))
    => Len(RootElements) = Len(AllInputs) - 1

(***************************************************************************)
(* C3 as amended.  The lines in question are those read at the array's own *)
(* index prompt; the lines an element's exploration reads (a scalar's      *)
(* "press enter to return", a struct's field number, ...) come in between  *)
(* and are no indices.  When the lines read at the index prompt are k      *)
(* integers i1..ik and then a non-integer, exactly the elements i1..ik are *)
(* explored, in that order, as children at guard(path)[i], and the array   *)
(* exploration ends on the non-integer line and on nothing else.           *)
(***************************************************************************)
C3_IndexInputsExplored ==
    (RootIsArrayValue /\ NoUnreadableElement) =>
    LET idx  == RootIndexInputs
        expl == RootElements
        ints == SelectSeq(idx, LAMBDA ev : ParseInt(ev.arg).ok)
    IN  /\ \A k \in 1..Len(idx) : (k < Len(idx)) => ParseInt(idx[k].arg).ok
        /\ Len(expl) \in {Len(ints), Len(ints) - 1}
        /\ \A k \in 1..Len(expl) :
               expl[k].expr = ElementExpr(log[1].expr, ParseInt(ints[k].arg).val)
        /\ (Len(expl) = Len(ints) - 1)
               => CallsElement(log[1], ParseInt(ints[Len(ints)].arg).val)
        /\ (status = "done") => IndicesThenStop(idx)
        /\ (idx # <<>> /\ ~ParseInt(idx[Len(idx)].arg).ok)
               => /\ log[Len(log)].ev = "return"
                  /\ Len(expl) = Len(idx) - 1
                  /\ ret \in {"False", "None"}

\* inputs 0, 1, "x" at the index prompt: two elements explored, then the end
C3_Witness ==
    /\ RootIsArrayValue
    /\ NoUnreadableElement
    /\ status = "done"
    /\ Len(RootIndexInputs) = 3
    /\ RootIndexInputs[1].arg = <<"0">>
    /\ RootIndexInputs[2].arg = <<"1">>
    /\ RootIndexInputs[3].arg = <<"x">>
    /\ Len(RootElements) = 2

(***************************************************************************)
(* C4.  A pointer value explored as an array.                              *)
(***************************************************************************)
\* event n: "y" was answered to "Continue exploring it as a pointer to an
\* array [y/n]"
ChoseArray(n) == Is(n, "input", "array") /\ log[n].arg = <<"y">>

\* the lines read after event n, by whatever prompt
InputsAfter(n) == SelectSeq(SubSeq(log, n + 1, Len(log)), IsInputEv)

\* the explorations called by activation h
ExploredBy(h) == SelectSeq(log, LAMBDA ev : ev.ev = "explore" /\ ev.by = h)

Returned(h) == \E m \in LogIdx : log[m].ev = "return" /\ log[m].id = h

\* As claimed: when the lines that follow the choice of "array" are k
\* integers and then a non-integer, exactly k elements are explored and the
\* pointer handler returns.
C4_FollowingInputsAreIndices ==
    \A n \in LogIdx :
        (ChoseArray(n) /\ NoUnreadableElement /\ IndicesThenStop(InputsAfter(n)))
        => /\ Len(ExploredBy(log[n].id)) = Len(InputsAfter(n)) - 1
           /\ Returned(log[n].id)

\* what follows event m of the pointer activation of event e in its array loop
C4_LoopStep(m, e) ==
    LET j == ParseInt(log[m].arg)
    IN  CASE Is(m, "input", "index") ->
               IF j.ok
               THEN IF m = Len(log)
                    THEN CallsElement(e, j.val)
                    ELSE \/ (IsOf(m + 1, e, "print", "cannot_read")
                             /\ log[m + 1].arg = j.val)
                         \/ (ExploresElement(m + 1, e, j.val) /\ log[m + 1].by = e.id)
                         \/ (IsOf(m + 1, e, "raise", "MemoryError")
                             /\ log[m + 1].id = e.id)
               ELSE /\ m < Len(log)
                    /\ IsOf(m + 1, e, "return", "False")
                    /\ log[m + 1].id = e.id
          [] Is(m, "print", "cannot_read") ->
               IsOf(m - 1, e, "input", "index") /\ log[m - 1].id = e.id
          [] Is(m, "raise", "MemoryError") ->
               /\ IsOf(m - 1, e, "input", "index")
               /\ log[m - 1].id = e.id
               /\ ParseInt(log[m - 1].arg).ok
          [] log[m].ev = "return" ->
               /\ IsOf(m - 1, e, "input", "index")
               /\ log[m - 1].id = e.id
               /\ ~ParseInt(log[m - 1].arg).ok
               /\ log[m].what = "False"
          [] OTHER -> FALSE

(***************************************************************************)
(* C4 as amended.  The lines in question are those read at the pointer's   *)
(* own index prompt (an element's exploration reads lines of its own in    *)
(* between).  Every integer read there explores that element as a child at *)
(* guard(path)[index] -- unless rendering the element fails, which is      *)
(* reported and skipped, or value[index] itself fails because the          *)
(* pointer's own contents cannot be read, which raises out of the engine   *)
(* (C1) -- and nothing else is explored; the first non-integer read there  *)
(* (the empty line included) makes the handler return Return, and nothing  *)
(* else does.                                                              *)
(***************************************************************************)
C4_PointerArrayLoop ==
    \A n \in LogIdx :
        ChoseArray(n) =>
        LET e == log[n]
        IN  /\ e.fn = "Pointer"
            /\ (n = Len(log)) => WaitingAt(e, "index")
            /\ \A m \in LogIdx :
                   (m > n /\ log[m].id = e.id) => C4_LoopStep(m, e)
            /\ \A m \in LogIdx :
                   (m > n /\ log[m].ev = "explore" /\ log[m].by = e.id)
                   => /\ IsOf(m - 1, e, "input", "index")
                      /\ log[m - 1].id = e.id
                      /\ ParseInt(log[m - 1].arg).ok
                      /\ ExploresElement(m, e, ParseInt(log[m - 1].arg).val)

\* "array" chosen, then 2 and "x" at the index prompt: element 2, and only
\* it, was explored and the handler returned False
C4_Witness ==
    \E n \in LogIdx :
        /\ ChoseArray(n)
        /\ Len(log) >= n + 6
        /\ IsOf(n + 1, log[n], "input", "index") /\ log[n + 1].arg = <<"2">>
        /\ ExploresElement(n + 2, log[n], 2)
        /\ Len(ExploredBy(log[n].id)) = 1
        /\ \E m \in LogIdx :
              /\ IsOf(m, log[n], "input", "index") /\ log[m].arg = <<"x">>
              /\ IsOf(m + 1, log[n], "return", "False")

(***************************************************************************)
(* Compound nodes: fields as declared, and what a menu shows.              *)
(***************************************************************************)
\* the non-artificial fields of type t, in declaration order
RealFields(t) == SelectSeq(TypeFields(t), LAMBDA f : ~f.artificial)

\* the numbers a printed field table carries in "<Enter n to explore ...>"
OfferedNumbers(print_list) ==
    { print_list[i].literal.n :
        i \in { k \in 1..Len(print_list) : print_list[k].literal.kind = "choice" } }

\* the lines the table of the running compound handler accepts
AcceptedKeys == { Top.cmap[k].key : k \in 1..Len(Top.cmap) }

\* event n: a compound of type code `code` has just shown its field table
\* and waits for the field number
MenuShown(n, mode, code) ==
    /\ Is(n, "print", "menu")
    /\ log[n].mode = mode
    /\ TypeCode(log[n].type) = code
    /\ n = Len(log)
    /\ WaitingAt(log[n], "choice")

(***************************************************************************)
(* C5.  For a struct/class value, a scalar field is shown inline and is    *)
(* not a choice: the lines accepted as a field choice are exactly the      *)
(* numbers of the non-scalar non-artificial fields, those the table offers.*)
(***************************************************************************)
C5_ScalarFieldNotSelectable ==
    \A n \in LogIdx :
        MenuShown(n, "expr", "STRUCT")
        => AcceptedKeys = { IntToStr(k) : k \in OfferedNumbers(log[n].arg) }

(***************************************************************************)
(* C6.  A union value with N >= 1 non-artificial fields offers exactly N   *)
(* numbered choices, 0..N-1, one per field in declaration order, scalar or *)
(* not; the lines accepted are exactly those numbers, a field explored is  *)
(* the one of the number entered, and an artificial field is neither shown *)
(* nor selectable.                                                         *)
(***************************************************************************)
C6_UnionOffersEveryField ==
    \A n \in LogIdx :
        (Is(n, "print", "menu") /\ log[n].mode = "expr"
           /\ TypeCode(log[n].type) = "UNION") =>
        LET e    == log[n]
            pl   == e.arg
            real == RealFields(e.type)
            N    == Len(real)
        IN  /\ N >= 1
            /\ Len(pl) = N
            /\ \A i \in 1..N :
                   /\ pl[i].name = real[i].name
                   /\ pl[i].literal = Literal("choice", i - 1, "field", real[i].type)
            /\ (n = Len(log)) =>
                   /\ WaitingAt(e, "choice")
                   /\ \A text \in Inputs :
                          InMap(Top.cmap, text)
                          <=> \E i \in 1..N : text = IntToStr(i - 1)
            /\ \A m \in LogIdx :
                   (log[m].ev = "explore" /\ log[m].by = e.id) =>
                   \E i \in 1..N :
                       /\ ~real[i].artificial
                       /\ IsOf(m - 1, e, "input", "choice")
                       /\ log[m - 1].arg = IntToStr(i - 1)
                       /\ log[m].expr = guard_expr(e.expr) \o <<".">> \o real[i].name
                       /\ log[m].type = real[i].type
                       /\ log[m].is_child

\* union U { int i; <artificial>; TS t; }: both fields were offered and the
\* scalar one, i, is being explored after "0" was entered
C6_Witness ==
    \E n \in LogIdx :
        /\ Is(n, "print", "menu")
        /\ log[n].mode = "expr"
        /\ TypeCode(log[n].type) = "UNION"
        /\ Len(log[n].arg) = 2
        /\ Len(TypeFields(log[n].type)) = 3
        /\ Len(log) >= n + 2
        /\ log[n + 1].arg = <<"0">>
        /\ log[n + 2].ev = "explore"
        /\ is_scalar_type(log[n + 2].type)

(***************************************************************************)
(* C7.  A struct or union with no non-artificial field.                    *)
(***************************************************************************)
HasNoRealField(t) ==
    \A i \in 1..Len(TypeFields(t)) : TypeFields(t)[i].artificial

\* event n: CompoundExplorer is entered for a node with no real field
EntersFieldless(n) ==
    /\ Is(n, "handler", "")
    /\ log[n].fn = "Compound"
    /\ HasNoRealField(log[n].type)

\* As claimed: such a node, root or child, value or type, reads no input.
C7_FieldlessReadsNothing ==
    \A n \in LogIdx :
        (log[n].ev = "input" /\ log[n].fn = "Compound")
        => ~HasNoRealField(log[n].type)

(***************************************************************************)
(* C7 as amended.  Exploring a struct or union with zero non-artificial    *)
(* fields, as a value or as a type, reports "no fields", shows no field    *)
(* table and asks for no field number.  As the root it reads nothing and   *)
(* returns Return.  As a child it reads exactly one line, at "Press enter  *)
(* to return to parent value / enclosing type", and then returns Return.   *)
(***************************************************************************)
C7_FieldlessReportsAndReturns ==
    \A n \in LogIdx :
        EntersFieldless(n) =>
        LET e == log[n]
        IN  /\ (n = Len(log)) => WaitingAt(e, "enter")
            /\ (n < Len(log)) => IsOf(n + 1, e, "print", "no_fields")
            /\ (~e.is_child /\ n < Len(log))
                   => (Len(log) >= n + 2 /\ IsOf(n + 2, e, "return", "False"))
            /\ (e.is_child /\ Len(log) = n + 1) => WaitingAt(e, "prompt_return")
            /\ (e.is_child /\ Len(log) >= n + 2)
                   => /\ IsOf(n + 2, e, "input", "return")
                      /\ Len(log) >= n + 3
                      /\ IsOf(n + 3, e, "return", "False")
            /\ \A m \in LogIdx :
                   (log[m].id = e.id) =>
                   m \in (IF e.is_child THEN n..(n + 3) ELSE n..(n + 2))

\* an empty struct explored as a child has reported, read its one line and
\* returned
C7_Witness ==
    \E n \in LogIdx :
        /\ EntersFieldless(n)
        /\ log[n].is_child
        /\ Len(log) >= n + 3
        /\ IsOf(n + 3, log[n], "return", "False")

(***************************************************************************)
(* C8.  Typedef exploration is transparent.                                *)
(***************************************************************************)
\* u is reached from typedef t by following typedef targets
RECURSIVE ReachesByTypedefs(_, _)
ReachesByTypedefs(t, u) ==
    /\ TypeCode(t) = "TYPEDEF"
    /\ (TypeTarget(t) = u \/ ReachesByTypedefs(TypeTarget(t), u))

\* the activation on top is a call of the dispatcher, not yet dispatched,
\* made by activation h for (mode, expr, type, is_child)
CallsDispatcher(h, mode, expr, type, is_child) ==
    /\ status = "running"
    /\ stack # <<>>
    /\ Top.fn = "Explorer" /\ Top.pc = "dispatch" /\ Top.by = h
    /\ Top.mode = mode /\ Top.expr = expr
    /\ Top.val.type = type /\ Top.is_child = is_child

\* event m is the dispatcher's entry, called by h for (mode, expr, type,
\* is_child)
EntersDispatcher(m, h, mode, expr, type, is_child) ==
    /\ log[m].ev = "explore" /\ log[m].by = h
    /\ log[m].mode = mode /\ log[m].expr = expr
    /\ log[m].type = type /\ log[m].is_child = is_child

(***************************************************************************)
(* C8.  Exploring a node whose type is a typedef, at path p with a given   *)
(* isChild, as a value or as a type, prints the one disclosure line and    *)
(* explores the fully stripped underlying type through the dispatcher at   *)
(* the same path p with the same isChild, once; the typedef handler reads  *)
(* nothing itself and returns Return when that exploration has unwound, so *)
(* the handler invoked, the field menu, the accepted choices and the child *)
(* paths are those of the underlying struct explored directly at p.        *)
(***************************************************************************)
C8_TypedefTransparent ==
    \A n \in LogIdx :
        Is(n, "print", "typedef") =>
        LET e == log[n]
            u == e.arg
        IN  /\ e.fn = "Typedef"
            /\ ReachesByTypedefs(e.type, u)
            /\ TypeCode(u) # "TYPEDEF"
            /\ (n = Len(log))
                   => CallsDispatcher(e.id, e.mode, e.expr, u, e.is_child)
            /\ (n < Len(log))
                   => EntersDispatcher(n + 1, e.id, e.mode, e.expr, u, e.is_child)
            /\ \A m \in LogIdx :
                   (log[m].ev = "explore" /\ log[m].by = e.id) => m = n + 1
            /\ \A m \in LogIdx :
                   (log[m].id = e.id) =>
                   \/ m = n - 1 /\ Is(m, "handler", "")
                   \/ m = n
                   \/ /\ Is(m, "return", "False")
                      /\ Is(m - 1, "return", "None")
                      /\ log[m - 1].id = log[n + 1].id
                      /\ (Len(log) > m)
                             => (Is(m + 1, "return", "None")
                                 /\ log[m + 1].id = e.by)
            /\ \A m \in LogIdx :
                   (n < Len(log) /\ log[m].by = log[n + 1].id
                      /\ log[m].ev \in {"handler", "print"}) =>
                   /\ log[m].fn = ExplorerClass(TypeCode(u))
                   /\ log[m].mode = e.mode /\ log[m].expr = e.expr
                   /\ log[m].type = u /\ log[m].is_child = e.is_child
                   /\ Is(m, "print", "menu") =>
                          /\ log[m].arg =
                                 (IF e.mode = "expr"
                                  THEN ExprMenu(e.expr, Value(u, TRUE)).print_list
                                  ELSE TypeMenu(u).print_list)
                          /\ (m = Len(log) /\ WaitingAt(log[m], "choice")) =>
                                 Top.cmap =
                                   (IF e.mode = "expr"
                                    THEN ExprMenu(e.expr, Value(u, Top.val.ok)).cmap
                                    ELSE TypeMenu(u).cmap)

\* a typedef of a typedef of struct S was explored: its disclosure line, the
\* menu of S and, once a non-matching line was entered there, its return
C8_Witness ==
    \E n \in LogIdx :
        /\ Is(n, "print", "typedef")
        /\ TypeCode(TypeTarget(log[n].type)) = "TYPEDEF"
        /\ TypeCode(log[n].arg) = "STRUCT"
        /\ \E m \in LogIdx :
              /\ m > n + 1
              /\ Is(m, "print", "menu")
              /\ log[m].by = log[n + 1].id
        /\ \E r \in LogIdx :
              Is(r, "return", "False") /\ log[r].id = log[n].id

(***************************************************************************)
(* C9.  Non-matching input at a menu prompt.                               *)
(***************************************************************************)
\* event n: a line read at one of the menu prompts
IsMenuInput(n) ==
    /\ log[n].ev = "input"
    /\ log[n].what \in {"single", "array", "index", "choice"}

\* the line of menu input n selects nothing
NonMatching(n) ==
    CASE log[n].what \in {"single", "array"} -> log[n].arg # <<"y">>
      [] log[n].what = "index" -> ~ParseInt(log[n].arg).ok
      [] log[n].what = "choice" ->
             ~\E i \in 1..Len(RealFields(log[n].type)) :
                  log[n].arg = IntToStr(i - 1)

\* after return event r of the handler of e: its dispatcher returns, which
\* ends the command when it is the root's, and gives control back to the
\* enclosing node's handler otherwise
DispatcherReturnsAfter(r, e) ==
    /\ (Len(log) = r) =>
           /\ status = "running" /\ stack # <<>>
           /\ Top.fn = "Explorer" /\ Top.id = e.by /\ Top.pc = "while"
           /\ ret = "False"
    /\ (Len(log) > r) =>
           /\ Is(r + 1, "return", "None")
           /\ log[r + 1].fn = "Explorer"
           /\ log[r + 1].id = e.by
           /\ IF log[r + 1].by = 0
              THEN status = "done" /\ stack = <<>> /\ Len(log) = r + 1
              ELSE (Len(log) = r + 1)
                       => (status = "running" /\ stack # <<>>
                           /\ Top.id = log[r + 1].by)

\* the handler that read menu input n returns Return at once (after the
\* "Returning to parent" banner when it prints one)
ReturnsAfter(n) ==
    \E r \in {n + 1, n + 2} :
        /\ r <= Len(log)
        /\ Is(r, "return", "False")
        /\ log[r].id = log[n].id
        /\ (r = n + 2) => (Is(n + 1, "print", "banner")
                           /\ log[n + 1].id = log[n].id
                           /\ log[n].is_child)
        /\ DispatcherReturnsAfter(r, log[n])

ShownAgain(n, p) ==
    /\ (Len(log) = n + 2)
           => (status = "running" /\ stack # <<>>
               /\ Top.id = p.id /\ Top.pc = "after_call")
    /\ (Len(log) >= n + 3)
           => (IsOf(n + 3, p, "return", "True") /\ log[n + 3].id = p.id)
    /\ (Len(log) >= n + 4)
           => (IsOf(n + 4, p, "handler", "") /\ log[n + 4].by = p.by)
    /\ (Len(log) >= n + 5)
           => /\ log[n + 5].id = log[n + 4].id
              /\ IF p.fn = "Compound"
                 THEN \E k \in 1..(n - 2) :
                          /\ IsOf(k, p, "print", "menu")
                          /\ log[k].id = p.id
                          /\ IsOf(n + 5, p, "print", "menu")
                          /\ log[n + 5].arg = log[k].arg
                 ELSE IsOf(n + 5, p, "print", "array")
    /\ (Len(log) = n + 5)
           => WaitingAt(p, IF p.fn = "Compound" THEN "choice" ELSE "index")

C10_UnsupportedCategory ==
    \A n \in LogIdx :
        (log[n].ev = "explore" /\ ~HasExplorer(TypeCode(log[n].type))) =>
        LET e == log[n]
        IN  /\ Len(log) >= n + 2
            /\ Is(n + 1, "print", "not_available") /\ log[n + 1].id = e.id
            /\ Is(n + 2, "return", "None") /\ log[n + 2].id = e.id
            /\ \A m \in LogIdx :
                   /\ (log[m].id = e.id) => m \in n..(n + 2)
                   /\ log[m].by # e.id
            /\ (Len(log) = n + 2) => status # "error"
            /\ (e.by = 0) => (status = "done" /\ Len(log) = n + 2)
            /\ (e.by # 0 /\ log[n - 1].ev = "input"
                  /\ log[n - 1].fn \in {"Compound", "Array"})
                   => (log[n - 1].id = e.by /\ ShownAgain(n, log[n - 1]))

\* a field of unsupported type was chosen in a struct's menu, reported, and
\* the struct's menu is on screen again, waiting for a field number
C10_Witness ==
    \E n \in LogIdx :
        /\ log[n].ev = "explore"
        /\ ~HasExplorer(TypeCode(log[n].type))
        /\ log[n].by # 0
        /\ Is(n - 1, "input", "choice")
        /\ log[n - 1].fn = "Compound"
        /\ Len(log) = n + 5
        /\ Is(n + 1, "print", "not_available")
        /\ Is(n + 5, "print", "menu")

(***************************************************************************)
(* The commands.                                                           *)
(***************************************************************************)
\* the command of the session and its argument string
Cmd == log[1].fn

Arg == log[1].expr

Invoked == Len(log) >= 1 /\ log[1].ev = "command"

IsExpression(a) == \E c \in ContextValues : c.name = a

IsTypeName(a) == \E c \in ContextTypes : c.name = a

ValueTypeOf(a) == (CHOOSE c \in ContextValues : c.name = a).type

TypeOf(a) == (CHOOSE c \in ContextTypes : c.name = a).type

\* the resolvers tried, in order, each with what it found
Resolutions ==
    LET evs == SelectSeq(log, LAMBDA ev : ev.ev = "resolve")
    IN  [k \in 1..Len(evs) |-> <<evs[k].what, evs[k].arg>>]

\* the events of the command itself
CommandEvents == SelectSeq(log, LAMBDA ev : ev.mode = "cmd")

\* the command called the dispatcher once, for (mode, name, type) as the root
RootExplored(mode, name, type) ==
    /\ status # "aborted"
    /\ nact >= 1
    /\ \A n \in LogIdx :
           (log[n].ev = "explore" /\ log[n].by = 0) =>
           /\ n = Len(CommandEvents) + 1
           /\ log[n].mode = mode /\ log[n].expr = name
           /\ log[n].type = type /\ ~log[n].is_child
    /\ (Len(log) = Len(CommandEvents) /\ status = "running") =>
           /\ Len(stack) = 1
           /\ Top.fn = "Explorer" /\ Top.pc = "dispatch" /\ Top.by = 0
           /\ Top.mode = mode /\ Top.expr = name
           /\ Top.val.type = type /\ ~Top.is_child
    /\ (Len(log) > Len(CommandEvents)) => (log[Len(CommandEvents) + 1].ev = "explore")

\* the command raised gdb.GdbError: nothing was explored and nothing read
Aborted ==
    /\ status = "aborted"
    /\ stack = <<>>
    /\ nin = 0
    /\ nact = 0
    /\ log[Len(log)].ev = "raise" /\ log[Len(log)].what = "GdbError"
    /\ \A n \in LogIdx : log[n].mode = "cmd" /\ log[n].ev # "print"

(***************************************************************************)
(* C11.  Each entry command explores the result of the first resolver that *)
(* succeeds, in its stated order.  `explore ARG` evaluates ARG and         *)
(* resolves it as a type only if evaluation fails, so an ARG that is both  *)
(* an expression and a type name is explored as a value; `explore type     *)
(* ARG` resolves ARG as a type first and only if that fails evaluates it   *)
(* and explores the type of its value; either raises an error when neither *)
(* resolver succeeds.                                                      *)
(***************************************************************************)
C11_FirstResolverWins ==
    (Invoked /\ Arg # <<>>) =>
    CASE Cmd = "explore" ->
           IF IsExpression(Arg)
           THEN /\ Resolutions = << <<"value", ValueTypeOf(Arg)>> >>
                /\ RootExplored("expr", Arg, ValueTypeOf(Arg))
           ELSE IF IsTypeName(Arg)
           THEN /\ Resolutions = << <<"value", "none">>, <<"type", TypeOf(Arg)>> >>
                /\ RootExplored("type", Arg, TypeOf(Arg))
           ELSE /\ Resolutions = << <<"value", "none">>, <<"type", "none">> >>
                /\ Aborted
      [] Cmd = "explore type" ->
           IF IsTypeName(Arg)
           THEN /\ Resolutions = << <<"type", TypeOf(Arg)>> >>
                /\ RootExplored("type", Arg, TypeOf(Arg))
           ELSE IF IsExpression(Arg)
           THEN /\ Resolutions = << <<"type", "none">>,
                                    <<"value", ValueTypeOf(Arg)>> >>
                /\ RootExplored("type", TypeName(ValueTypeOf(Arg)),
                                ValueTypeOf(Arg))
           ELSE /\ Resolutions = << <<"type", "none">>, <<"value", "none">> >>
                /\ Aborted
      [] OTHER -> TRUE

\* `explore n`, n being both a variable and a type name: its value is being
\* explored, the type resolver was never tried
C11_Witness ==
    /\ Invoked
    /\ Cmd = "explore"
    /\ IsExpression(Arg) /\ IsTypeName(Arg)
    /\ Len(Resolutions) = 1
    /\ \E n \in LogIdx :
          /\ log[n].ev = "handler" /\ log[n].mode = "expr"
          /\ log[n].type = ValueTypeOf(Arg)

(***************************************************************************)
(* C12.  For each of the three commands an empty argument string is a      *)
(* usage error raised before any evaluation or type resolution; for        *)
(* `explore value` an expression that does not evaluate is an error; and   *)
(* whenever a command ends in an error no handler was invoked, nothing was *)
(* explored and no input was read.                                         *)
(***************************************************************************)
C12_UsageErrors ==
    /\ (Invoked /\ Arg = <<>>) => (Len(log) = 2 /\ Resolutions = <<>> /\ Aborted)
    /\ (Invoked /\ Arg # <<>> /\ Cmd = "explore value") =>
           IF IsExpression(Arg)
           THEN /\ Resolutions = << <<"value", ValueTypeOf(Arg)>> >>
                /\ RootExplored("expr", Arg, ValueTypeOf(Arg))
           ELSE /\ Resolutions = << <<"value", "none">> >>
                /\ Aborted
    /\ (status = "aborted") => Aborted
    /\ (\E n \in LogIdx : log[n].ev = "raise" /\ log[n].what = "GdbError")
           => Aborted

\* `explore value T`, T being only a type name: the command has aborted
C12_Witness ==
    /\ Invoked
    /\ Cmd = "explore value"
    /\ Arg # <<>>
    /\ IsTypeName(Arg)
    /\ status = "aborted"
    /\ Len(log) = 3

(***************************************************************************)
(* guard_expr.                                                             *)
(***************************************************************************)
\* the string guard_expr was first given
Given == log[1].expr

\* what the k-th call of guard_expr returned
Guarded(k) == log[k + 1].expr

GuardCalls == Len(log) - 1

Parenthesised(e) == <<"(">> \o e \o <<")">>

(***************************************************************************)
(* C13.  guard is idempotent: for every non-empty expression string e over *)
(* letters, digits, '_', '(', ')', an operator and a blank,                *)
(* guard(guard(e)) = guard(e).                                             *)
(***************************************************************************)
C13_GuardIdempotent ==
    \A k \in 2..GuardCalls : Guarded(k) = Guarded(k - 1)

\* an expression that guard parenthesised was guarded again
C13_Witness ==
    /\ GuardCalls >= 2
    /\ Guarded(1) = Parenthesised(Given)

(***************************************************************************)
(* C14.  guard(e) equals the reference function for every non-empty e: e   *)
(* unchanged if e begins with '(' and ends with ')'; otherwise e unchanged *)
(* if every character of e is in [A-Za-z0-9_]; otherwise '(' + e + ')'.    *)
(* In particular guard never alters an e that is exactly [A-Za-z0-9_]+.    *)
(***************************************************************************)
WordChars == Lower \cup Upper \cup Digit \cup {"_"}

GuardReference(e) ==
    IF e[1] = "(" /\ e[Len(e)] = ")" THEN e
    ELSE IF \A i \in 1..Len(e) : e[i] \in WordChars THEN e
    ELSE Parenthesised(e)

C14_GuardReference ==
    /\ \A k \in 1..GuardCalls :
           Guarded(k) = GuardReference(IF k = 1 THEN Given ELSE Guarded(k - 1))
    /\ (GuardCalls >= 1 /\ \A i \in 1..Len(Given) : Given[i] \in WordChars)
           => Guarded(1) = Given

\* an expression that begins with '(' and does not end with ')', an operator
\* in between, was guarded
C14_Witness ==
    /\ GuardCalls >= 1
    /\ Len(Given) = 4
    /\ Given[1] = "(" /\ Given[2] = "a" /\ Given[3] = "*" /\ Given[4] = "a"
    /\ Guarded(1) = Parenthesised(Given)

(***************************************************************************)
(* Child paths.                                                            *)
(***************************************************************************)
\* event m is a call of the dispatcher made by the handler activation that
\* logged event h
CalledBy(m, h) == log[m].ev = "explore" /\ log[m].by = log[h].id

(***************************************************************************)
(* C15.  On a pointer value node, "single value" chosen and the pointee    *)
(* readable: the dispatcher is entered with path "*" + guard(path) and     *)
(* isChild = true, whatever the isChild of the pointer node (root          *)
(* included), and the pointer handler then returns Return.                 *)
(***************************************************************************)
C15_PointeeIsChild ==
    \A n \in LogIdx :
        (Is(n, "input", "single") /\ log[n].arg = <<"y">>
           /\ n < Len(log) /\ log[n + 1].ev = "explore") =>
        /\ CalledBy(n + 1, n)
        /\ log[n + 1].mode = "expr"
        /\ log[n + 1].expr = <<"*">> \o guard_expr(log[n].expr)
        /\ log[n + 1].type = TypeTarget(log[n].type)
        /\ log[n + 1].is_child
        /\ \A m \in LogIdx :
               (log[m].ev = "return" /\ log[m].id = log[n].id)
               => log[m].what = "False"

(***************************************************************************)
(* C16.  Path composition preserves operator precedence: for every path p  *)
(* with a character outside [A-Za-z0-9_], the operand to which the         *)
(* pointer, array or compound handler attaches "*", "[i]" or ".field" is p *)
(* enclosed as a whole by one matching pair of parentheses: its first '('  *)
(* is matched by its last ')'.                                             *)
(***************************************************************************)
\* '(' minus ')' among the first i characters of e
RECURSIVE Depth(_, _)
Depth(e, i) ==
    IF i = 0 THEN 0
    ELSE Depth(e, i - 1) + (IF e[i] = "(" THEN 1 ELSE IF e[i] = ")" THEN -1 ELSE 0)

\* e begins with a '(' whose matching ')' is e's last character
EnclosedAsAWhole(e) ==
    /\ Len(e) >= 2
    /\ e[1] = "(" /\ e[Len(e)] = ")"
    /\ \A i \in 1..(Len(e) - 1) : Depth(e, i) > 0
    /\ Depth(e, Len(e)) = 0

HasOperator(e) == \E i \in 1..Len(e) : e[i] \notin WordChars

\* child is operand with "*" before it, or with "[..." or "...." after it
Attaches(child, operand) ==
    \/ child = <<"*">> \o operand
    \/ /\ Len(child) > Len(operand)
       /\ SubSeq(child, 1, Len(operand)) = operand
       /\ child[Len(operand) + 1] \in {"[", "."}

C16_OperandEnclosed ==
    \A h \in LogIdx, m \in LogIdx :
        (/\ Is(h, "handler", "")
         /\ log[h].mode = "expr"
         /\ log[h].fn \in {"Pointer", "Array", "Compound"}
         /\ HasOperator(log[h].expr)
         /\ CalledBy(m, h)) =>
        \E operand \in {log[h].expr, Parenthesised(log[h].expr)} :
            /\ EnclosedAsAWhole(operand)
            /\ Attaches(log[m].expr, operand)

(***************************************************************************)
(* Type exploration.                                                       *)
(***************************************************************************)
\* the dispatcher calls made, the values returned and the lines read by the
\* handler activation that logged event h
CallsOf(h) == { m \in LogIdx : CalledBy(m, h) }

ReturnsOf(h) == { r \in LogIdx : log[r].ev = "return" /\ log[r].id = log[h].id }

ReadsOf(h) == { i \in LogIdx : log[i].ev = "input" /\ log[i].id = log[h].id }

\* event h: a handler of one of the categories fns is entered in `mode`
HandlerEntered(h, mode, fns) ==
    /\ Is(h, "handler", "")
    /\ log[h].mode = mode
    /\ log[h].fn \in fns

C18_ChoiceExploresOrReturns ==
    \A n \in LogIdx :
        (Is(n, "input", "choice") /\ log[n].mode = "expr"
           /\ log[n].fn = "Compound") =>
        LET e       == log[n]
            offered == OfferedNumbers(log[n - 1].arg)
            real    == RealFields(e.type)
        IN  /\ IsOf(n - 1, e, "print", "menu")
            /\ offered # {}
            /\ IF \E k \in offered : e.arg = IntToStr(k)
               THEN LET k == CHOOSE k \in offered : e.arg = IntToStr(k)
                    IN  /\ \A r \in ReturnsOf(n) : log[r].what = "True"
                        /\ (n < Len(log)) =>
                               /\ CalledBy(n + 1, n)
                               /\ log[n + 1].is_child
                               /\ log[n + 1].expr =
                                      guard_expr(e.expr) \o <<".">>
                                      \o real[k + 1].name
                               /\ log[n + 1].type = real[k + 1].type
                        /\ \A m \in LogIdx :
                               (log[m].ev = "return" /\ log[m].id = e.id
                                  /\ m + 1 \in LogIdx) =>
                               /\ Is(m + 1, "handler", "")
                               /\ SameNode(log[m + 1], e)
               ELSE /\ CallsOf(n) = {}
                    /\ \A r \in ReturnsOf(n) : log[r].what = "False"
                    /\ (~e.is_child /\ e.by = 1 /\ n + 2 \in LogIdx) =>
                           /\ IsOf(n + 1, e, "return", "False")
                           /\ log[n + 2].ev = "return" /\ log[n + 2].id = 1
                           /\ Len(log) = n + 2

(***************************************************************************)
(* C19.  In every reachable state of a session, a "press enter to return   *)
(* to parent value / enclosing type" prompt or a "Returning to parent      *)
(* value / enclosing type..." banner is issued only by a handler running   *)
(* with isChild = true: a handler of the root node issues neither.         *)
(***************************************************************************)
C19_ReturnPromptsOnlyInChildren ==
    /\ \A n \in LogIdx :
           (Is(n, "input", "return") \/ Is(n, "print", "banner"))
           => log[n].is_child
    /\ \A k \in 1..Len(stack) :
           (stack[k].pc = "prompt_return") => stack[k].is_child

\* a child scalar has asked for enter and printed the banner, and a child
\* compound has printed the banner on a line that is no choice
C19_Witness ==
    /\ \E n \in LogIdx :
          /\ Is(n, "input", "return") /\ log[n].fn = "Scalar" /\ log[n].is_child
          /\ n < Len(log) /\ IsOf(n + 1, log[n], "print", "banner")
    /\ \E n \in LogIdx :
          /\ Is(n, "print", "banner") /\ log[n].fn = "Compound"
          /\ log[n].is_child
          /\ Is(n - 1, "input", "choice")

(***************************************************************************)
(* C20.  The scalar, reference, typedef and pointer handlers, for values   *)
(* and for types, never return Repeat: whatever the inputs, what they      *)
(* return is Return, so one invocation of the dispatcher on such a node    *)
(* runs its handler exactly once.  Only the array value handler and the    *)
(* compound handlers ever return Repeat.  A reference handler itself       *)
(* prints nothing and reads no input, and passes its own path and isChild  *)
(* to the referent.                                                        *)
(***************************************************************************)
ReturnOnly == {"Scalar", "Reference", "Typedef", "Pointer"}

\* the handler activations the dispatcher activation of event x has run
HandlersOf(x) ==
    { h \in LogIdx : Is(h, "handler", "") /\ log[h].by = log[x].id }

C20_ReturnOnlyHandlers ==
    /\ \A r \in LogIdx :
           (log[r].ev = "return" /\ log[r].fn \in ReturnOnly)
           => log[r].what = "False"
    /\ \A r \in LogIdx :
           Is(r, "return", "True")
           => \/ log[r].fn = "Array" /\ log[r].mode = "expr"
              \/ log[r].fn = "Compound"
    /\ \A x \in LogIdx :
           (/\ log[x].ev = "explore"
            /\ HasExplorer(TypeCode(log[x].type))
            /\ ExplorerClass(TypeCode(log[x].type)) \in ReturnOnly) =>
           /\ Cardinality(HandlersOf(x)) = 1
           /\ \A h \in HandlersOf(x) :
                  /\ h = x + 1
                  /\ log[h].fn = ExplorerClass(TypeCode(log[x].type))
                  /\ log[h].expr = log[x].expr /\ log[h].mode = log[x].mode
                  /\ log[h].is_child = log[x].is_child
    /\ \A n \in LogIdx :
           (log[n].fn = "Reference") => log[n].ev \notin {"print", "input"}
    /\ \A h \in LogIdx :
           HandlerEntered(h, log[h].mode, {"Reference"}) =>
           /\ Cardinality(CallsOf(h)) <= 1
           /\ \A m \in CallsOf(h) :
                  /\ log[m].mode = log[h].mode
                  /\ log[m].expr = log[h].expr
                  /\ log[m].is_child = log[h].is_child
                  /\ log[m].type = TypeTarget(log[h].type)
           /\ \A r \in ReturnsOf(h) : \E m \in CallsOf(h) : m < r

\* a reference was explored: its handler ran once, handed its path on to the
\* referent, whose compound handler returned Repeat, and then returned Return;
\* the dispatcher of the reference has returned
C20_Witness ==
    \E x \in LogIdx, h \in LogIdx :
        /\ log[x].ev = "explore"
        /\ h \in HandlersOf(x)
        /\ log[h].fn = "Reference"
        /\ \E m \in CallsOf(h) : log[m].expr = log[h].expr
        /\ \E r \in ReturnsOf(h) : log[r].what = "False"
        /\ \E r \in LogIdx : Is(r, "return", "True") /\ log[r].fn = "Compound"
        /\ \E r \in LogIdx : Is(r, "return", "None") /\ log[r].id = log[x].id

(***************************************************************************)
(* C21.  Every display of a compound value node, the first and every       *)
(* redisplay after a child has unwound, enumerates the node's fields anew  *)
(* and reads the field values anew: the values shown inline are what the   *)
(* inspected program's memory holds when the menu is printed, also when    *)
(* the memory has changed since an earlier display, and the choice table   *)
(* is the one built by this display.                                       *)
(***************************************************************************)
\* event e is a field table of a compound value node
IsValueMenu(e) == e.ev = "print" /\ e.what = "menu" /\ e.mode = "expr"

\* the field table e shows the real fields of its node in order, the inline
\* ones with their contents as of memory version `now`
ShowsFieldsAsOf(e, now) ==
    LET real == RealFields(e.type)
    IN  /\ Len(e.arg) = Len(real)
        /\ \A i \in 1..Len(real) :
               /\ e.arg[i].name = real[i].name
               /\ e.arg[i].literal.type = real[i].type
               /\ e.arg[i].rendered =
                      IF e.arg[i].literal.kind = "value" THEN now ELSE -1

\* the choice table cmap has one entry per real field of the node of e, keyed
\* by the field's position among them
TableOf(cmap, e) ==
    LET real == RealFields(e.type)
    IN  /\ Len(cmap) = Len(real)
        /\ \A i \in 1..Len(real) :
               /\ cmap[i].key = IntToStr(i - 1)
               /\ cmap[i].name = guard_expr(e.expr) \o <<".">> \o real[i].name
               /\ cmap[i].val.type = real[i].type

C21_RedisplayIsLive ==
    [][ \A n \in (Len(log) + 1)..Len(log') :
            IsValueMenu(log'[n]) =>
            /\ ShowsFieldsAsOf(log'[n], mem')
            /\ (stack' # <<>> /\ stack'[Len(stack')].pc = "choice")
                   => TableOf(stack'[Len(stack')].cmap, log'[n]) ]_vars

\* struct S was displayed, its field b explored while the memory changed, and
\* S displayed again by a new run of its handler: the two tables show
\* different contents for the inline field a
C21_Witness ==
    \E n \in LogIdx, m \in LogIdx :
        /\ n < m
        /\ IsValueMenu(log[n]) /\ IsValueMenu(log[m])
        /\ SameNode(log[n], log[m])
        /\ log[n].id # log[m].id
        /\ \E c \in CallsOf(n) : n < c /\ c < m
        /\ \E i \in 1..Len(log[n].arg) :
               /\ log[n].arg[i].literal.kind = "value"
               /\ log[n].arg[i].rendered = 0
               /\ log[m].arg[i].rendered = 1
        /\ mem = 1

(***************************************************************************)
(* C22.  A session started with Explorer.explore_type at the root reads    *)
(* nothing of the inspected program.  Every operation on a gdb.Value       *)
(* (dereference, index, cast, field value, str) is made by an explore_expr *)
(* method, and the explore_type methods are handed no value; so: every     *)
(* activation of such a session, dispatcher or handler, is an explore_type *)
(* one, no explore_expr handler is ever entered, no gdb.MemoryError is     *)
(* raised or reported, no question of the value handlers (single value,    *)
(* array, index, continue) is asked, and the memory is as it was.          *)
(***************************************************************************)
\* the session was started with Explorer.explore_type
TypeSession ==
    \/ stack # <<>> /\ stack[1].mode = "type"
    \/ log # <<>> /\ log[1].mode = "type"

C22_TypeSessionReadsNothing ==
    TypeSession =>
    /\ status \in {"running", "done"}
    /\ mem = 0
    /\ \A k \in 1..Len(stack) : stack[k].mode = "type"
    /\ \A n \in LogIdx :
           /\ log[n].mode = "type"
           /\ log[n].ev \in {"explore", "handler", "print", "input", "return"}
           /\ (log[n].ev = "print") =>
                  log[n].what \notin {"cannot_read", "invalid_pointer",
                                      "fields_header"}
           /\ (log[n].ev = "input") => log[n].what \in {"choice", "return"}

\* a type session that went from a struct type through its pointer field to
\* the struct again, and has ended
C22_Witness ==
    /\ TypeSession
    /\ status = "done"
    /\ \E n \in LogIdx : Is(n, "handler", "") /\ log[n].fn = "Pointer"
                         /\ log[n].is_child
    /\ \E n \in LogIdx : Is(n, "handler", "") /\ log[n].fn = "Compound"
                         /\ log[n].is_child

(***************************************************************************)
(* C23.  The session terminates cleanly from any depth, also on cyclic     *)
(* type graphs: from every reachable state of a value or type exploration, *)
(* if every line supplied from then on is empty, every pending handler     *)
(* returns, all nested dispatcher invocations unwind and the command ends  *)
(* after finitely many prompts.                                            *)
(***************************************************************************)
C23_EmptyInputsUnwind == (status = "draining") ~> (status = "done")

(***************************************************************************)
(* C24.  In a compound menu, of a value or of a type, the number printed   *)
(* in a field's "<Enter n to explore this ...>" label selects exactly that *)
(* field: entering n explores the field displayed with n, under the path   *)
(* or name built from that field's name and with that field's type, as a   *)
(* child; and no two displayed fields carry the same number, also when     *)
(* artificial fields and inline scalar fields lie between the numbered     *)
(* ones.                                                                   *)
(***************************************************************************)
\* the rows of a printed field table that carry a number
NumberedRows(print_list) ==
    { i \in 1..Len(print_list) : print_list[i].literal.kind = "choice" }

\* the path (value) or name (type) under which the field of row `row` of the
\* menu e is explored
ChildName(e, row) ==
    IF e.mode = "expr"
    THEN guard_expr(e.expr) \o <<".">> \o row.name
    ELSE <<row.literal.desc, " '">> \o row.name \o <<"' of ">>
         \o (IF e.is_child THEN e.expr ELSE <<"'">> \o e.expr \o <<"'">>)

C24_NumberSelectsItsField ==
    \A n \in LogIdx :
        (Is(n, "print", "menu") /\ log[n].fn = "Compound") =>
        LET e  == log[n]
            pl == e.arg
        IN  /\ \A i \in NumberedRows(pl), j \in NumberedRows(pl) :
                   (pl[i].literal.n = pl[j].literal.n) => i = j
            /\ \A i \in NumberedRows(pl) :
                   (/\ n + 2 \in LogIdx
                    /\ Is(n + 1, "input", "choice")
                    /\ log[n + 1].id = e.id
                    /\ log[n + 1].arg = IntToStr(pl[i].literal.n)) =>
                   /\ CalledBy(n + 2, n)
                   /\ log[n + 2].mode = e.mode
                   /\ log[n + 2].expr = ChildName(e, pl[i])
                   /\ log[n + 2].type = pl[i].literal.type
                   /\ log[n + 2].is_child

\* struct S { int a; <artificial>; B b; S *n; } as a value: a is shown inline,
\* n is displayed with 2, and "2" was entered: n is being explored
C24_Witness ==
    \E n \in LogIdx :
        /\ Is(n, "print", "menu")
        /\ log[n].mode = "expr"
        /\ \E i \in 1..Len(log[n].arg) : log[n].arg[i].literal.kind = "value"
        /\ Len(TypeFields(log[n].type)) > Len(log[n].arg)
        /\ n + 2 \in LogIdx
        /\ log[n + 1].arg = <<"2">>
        /\ log[n + 2].ev = "explore"
        /\ log[n + 2].type = "PS"

=============================================================================
